---- MODULE Spec2Model ----
(***************************************************************************)
(* Model of the WBUploadManager pipeline: the start handler of             *)
(* DownloaderApp::update, the worker thread it spawns (remote, local       *)
(* folder and single-file modes), Downloader's remote enumeration and link *)
(* resolution, and WbUploader's product search and upload retry loops.     *)
(* Strings are sequences of one-character strings.                         *)
(***************************************************************************)
EXTENDS Integers, Sequences, FiniteSets, TLC

VARIABLES
    file_names,           \* DownloaderApp.file_names: the text box, as a sequence of lines
    is_processing,        \* Arc<Mutex<bool>>
    total_files,          \* Arc<Mutex<Option<usize>>>: <<>> is None, <<n>> is Some(n)
    processed_files,      \* Arc<Mutex<usize>>
    failed_vendor_codes,  \* Arc<Mutex<Vec<String>>>
    start_time,           \* Arc<Mutex<Option<Instant>>>: FALSE is None
    threads,              \* number of worker threads spawned and not yet returned
    pc,                   \* position of the worker thread
    run,                  \* values the worker closure captured at spawn
    idx,                  \* 1-based position of the vendor code being processed
    files,                \* Vec<FileInfo> returned by enumeration
    enum,                 \* state of Downloader::find_files
    call,                 \* state of the request loop in progress
    uploaded,             \* history: positions of the codes with a successful upload
    asked,                \* history: position of the code of the latest product-search,
                          \* link or upload request of the run; 0 before the first one
    upload_sent,          \* history: an upload request was sent in this run
    logs                  \* Arc<Mutex<Vec<String>>>: the number of lines the profile
                          \* panel pushed (the other lines are left out)

vars == <<file_names, is_processing, total_files, processed_files,
          failed_vendor_codes, start_time, threads, pc, run, idx, files,
          enum, call, uploaded, asked, upload_sent, logs>>

history == <<asked, upload_sent>>

(***************************************************************************)
(* Bounds of the model                                                     *)
(***************************************************************************)
MaxLines == 2        \* lines typed in the vendor-code box
MaxLogLines == 1     \* lines pushed to the log through the profile panel

(***************************************************************************)
(* Strings                                                                 *)
(***************************************************************************)
Digits == {"0", "1", "2", "3", "4", "5", "6", "7", "8", "9"}

Letters ==
    {"a", "b", "c", "d", "e", "f", "g", "h", "i", "j", "k", "l", "m", "n", "o", "p",
     "q", "r", "s", "t", "u", "v", "w", "x", "y", "z", "A", "B"}

\* char::to_lowercase on the model's alphabet
LowerChar(c) == CASE c = "A" -> "a" [] c = "B" -> "b" [] OTHER -> c

\* str::to_lowercase
to_lowercase(s) == [i \in 1..Len(s) |-> LowerChar(s[i])]

\* str::starts_with
starts_with(s, p) == Len(p) <= Len(s) /\ SubSeq(s, 1, Len(p)) = p

\* str::trim (the model's only whitespace is the space)
RECURSIVE trim_start(_)
trim_start(s) == IF s # <<>> /\ Head(s) = " " THEN trim_start(Tail(s)) ELSE s

RECURSIVE trim_end(_)
trim_end(s) ==
    IF s # <<>> /\ s[Len(s)] = " " THEN trim_end(SubSeq(s, 1, Len(s) - 1)) ELSE s

trim(s) == trim_end(trim_start(s))

\* Path::extension: the part after the last dot, unless the only dot leads the name
extension(name) ==
    LET dots == {i \in 1..Len(name) : name[i] = "."}
        last == CHOOSE i \in dots : \A j \in dots : j <= i
    IN IF dots = {} \/ last = 1 THEN <<>> ELSE SubSeq(name, last + 1, Len(name))

MediaExtensions ==
    { <<"p","n","g">>, <<"j","p","g">>, <<"j","p","e","g">>, <<"g","i","f">>,
      <<"b","m","p">>, <<"w","e","b","p">>, <<"m","o","v">>, <<"m","p","4">> }

is_media_file(file_name) == to_lowercase(extension(file_name)) \in MediaExtensions

DigitValue(c) == CHOOSE n \in 0..9 : ToString(n) = c

RECURSIVE DecimalValue(_)
DecimalValue(ds) ==
    IF ds = <<>> THEN 0
    ELSE 10 * DecimalValue(SubSeq(ds, 1, Len(ds) - 1)) + DigitValue(ds[Len(ds)])

RECURSIVE StripZeros(_)
StripZeros(ds) == IF ds # <<>> /\ Head(ds) = "0" THEN StripZeros(Tail(ds)) ELSE ds

\* u32::MAX, 4294967295, digit by digit
U32MaxDigits == <<"4", "2", "9", "4", "9", "6", "7", "2", "9", "5">>

\* Numeric order of two digit runs of the same length
RECURSIVE DigitsLeq(_, _)
DigitsLeq(x, y) ==
    IF x = <<>> THEN TRUE
    ELSE IF DigitValue(Head(x)) # DigitValue(Head(y))
         THEN DigitValue(Head(x)) < DigitValue(Head(y))
         ELSE DigitsLeq(Tail(x), Tail(y))

FitsU32(ds) ==
    LET d == StripZeros(ds)
    IN \/ Len(d) < Len(U32MaxDigits)
       \/ (Len(d) = Len(U32MaxDigits) /\ DigitsLeq(d, U32MaxDigits))

\* Mutant of parse_u32_or_1: unwrap_or_default
parse_u32_or_0(ds) == IF FitsU32(ds) THEN DecimalValue(ds) ELSE 0

\* str::parse::<u32>().unwrap_or(1) on a non-empty run of digits
parse_u32_or_1(ds) == IF FitsU32(ds) THEN DecimalValue(ds) ELSE 1

IsWordChar(c) == c \in Letters \cup Digits \cup {"_"}

\* Regex ^[_-](\d+)\.\w+$ : the digits captured, or <<>> when there is no match
PatternDigits(remaining) ==
    LET dots == {i \in 1..Len(remaining) : remaining[i] = "."}
        p == CHOOSE i \in dots : TRUE
    IN IF /\ Len(remaining) >= 4
          /\ remaining[1] \in {"_", "-"}
          /\ Cardinality(dots) = 1
          /\ p >= 3
          /\ p < Len(remaining)
          /\ \A i \in 2..(p - 1) : remaining[i] \in Digits
          /\ \A i \in (p + 1)..Len(remaining) : IsWordChar(remaining[i])
       THEN SubSeq(remaining, 2, p - 1)
       ELSE <<>>

\* Iterator::max_by_key(|p| p.len()) over the prefixes that match: the last of
\* the longest ones; 0 when none matches
LongestPrefixIndex(base_name, prefixes) ==
    LET match == {i \in 1..Len(prefixes) : starts_with(base_name, to_lowercase(prefixes[i]))}
    IN IF match = {} THEN 0
       ELSE CHOOSE i \in match :
              \A j \in match : \/ Len(prefixes[j]) < Len(prefixes[i])
                               \/ (Len(prefixes[j]) = Len(prefixes[i]) /\ j <= i)

\* Iterator::find over the prefixes that match: the first one; 0 when none matches
FirstPrefixIndex(base_name, prefixes) ==
    LET match == {i \in 1..Len(prefixes) : starts_with(base_name, to_lowercase(prefixes[i]))}
    IN IF match = {} THEN 0 ELSE CHOOSE i \in match : \A j \in match : i <= j

\* The photo number of a name given its matched prefix: <<n>>, or <<>> when the
\* rest of the name has the wrong pattern
PhotoNumber(base_name, prefix) ==
    LET remaining == SubSeq(base_name, Len(prefix) + 1, Len(base_name))
    IN IF PatternDigits(remaining) # <<>> THEN <<parse_u32_or_1(PatternDigits(remaining))>>
       ELSE IF remaining # <<>> /\ remaining[1] = "." THEN <<1>>
       ELSE <<>>

\* The vendor codes of the text box: trimmed non-empty lines
ParseVendorCodes(lines) ==
    LET trimmed == [i \in 1..Len(lines) |-> trim(lines[i])]
    IN SelectSeq(trimmed, LAMBDA s : s # <<>>)

(***************************************************************************)
(* Inputs and environment: what the user types and what the remote shares  *)
(* and the local disk hold.                                                *)
(***************************************************************************)
CodeA == <<"a">>
CodeAB == <<"a", "b">>

\* One line of the vendor-code box: a blank line or a code
LineChoices == {<<" ">>, CodeA, CodeAB}

RECURSIVE SeqsUpTo(_, _)
SeqsUpTo(S, n) ==
    IF n = 0 THEN {<<>>}
    ELSE LET shorter == SeqsUpTo(S, n - 1)
         IN shorter \cup {Append(q, x) : q \in {r \in shorter : Len(r) = n - 1}, x \in S}

LineInputs == SeqsUpTo(LineChoices, MaxLines)

ApiKeys == {<<>>, <<"k">>, <<"k", "\n">>}

Name_a == <<"a", ".", "p", "n", "g">>                  \* code a, photo 1
Name_ab == <<"a", "b", ".", "p", "n", "g">>            \* code ab, photo 1
Name_ab2 == <<"a", "b", "_", "2", ".", "p", "n", "g">> \* code ab, photo 2
Name_a2 == <<"a", "2", ".", "p", "n", "g">>            \* code a, wrong pattern
Name_x == <<"x", ".", "p", "n", "g">>                  \* no code
Name_txt == <<"a", ".", "t", "x", "t">>                \* not a media file

FileItem(name) == [name |-> name, item_type |-> "file", dir |-> <<>>]
DirItem(name, pages) == [name |-> name, item_type |-> "dir", dir |-> pages]

\* A remote directory is the sequence of the pages its listing serves
TreeFlat == << <<FileItem(Name_a), FileItem(Name_ab), FileItem(Name_ab2)>> >>
TreePaged == << <<FileItem(Name_txt), FileItem(Name_a)>>, <<FileItem(Name_ab2)>> >>
TreeSub ==
    << <<DirItem(<<"d">>, << <<FileItem(Name_ab2)>> >>), FileItem(Name_a)>> >>
TreeTwoDirs ==
    << <<DirItem(<<"d">>, << <<FileItem(Name_a), FileItem(Name_ab2)>> >>),
         DirItem(<<"e">>, << <<FileItem(Name_ab2)>> >>)>> >>
TreeWrong == << <<FileItem(Name_a2), FileItem(Name_x)>> >>
TreeEmpty == <<>>

\* One comma-separated segment of the links box, with the tree the share holds
Link(tree) == [text |-> "disk.yandex.ru/d/", tree |-> tree]
NoLink(text) == [text |-> text, tree |-> <<>>]

UrlInputs ==
    { <<NoLink("")>>, <<NoLink("other")>>, <<Link(TreeFlat), NoLink("")>>,
      <<Link(TreeFlat)>>, <<Link(TreePaged)>>, <<Link(TreeSub)>>,
      <<Link(TreeTwoDirs)>>, <<Link(TreeWrong)>>,
      <<Link(TreeEmpty), Link(TreeSub)>>, <<Link(TreeWrong), Link(TreeFlat)>> }

\* The local folder: "nodir", or the names a walk meets, in order
LocalFolders ==
    { <<Name_a, Name_ab2>>, <<Name_a, Name_a2, Name_ab2, Name_ab2>>, <<Name_x, Name_txt>> }

\* The single file path: <<>> (empty box) or a file name
SingleFiles == {<<>>, Name_a, Name_ab2, Name_a2, Name_x, Name_txt}

None == <<>>
Some(x) == <<x>>

Mode(use_local_path, single_file_path) ==
    IF use_local_path /\ single_file_path # <<>> THEN "single"
    ELSE IF use_local_path THEN "local"
    ELSE "remote"

NoRun ==
    [vendor_codes |-> <<>>, mode |-> "remote", api_key |-> <<>>, public_keys |-> <<>>,
     local |-> <<>>, single_file_path |-> <<>>, file_names |-> <<>>]

NoEnum ==
    [root |-> 0, stack |-> <<>>, found |-> {}, files |-> <<>>, attempts |-> 0,
     status |-> "none", requests |-> 0, last |-> "none"]

NoCall == [kind |-> "none"]

Init ==
    /\ file_names = <<>>
    /\ is_processing = FALSE
    /\ total_files = None
    /\ processed_files = 0
    /\ failed_vendor_codes = <<>>
    /\ start_time = FALSE
    /\ threads = 0
    /\ pc = "idle"
    /\ run = NoRun
    /\ idx = 0
    /\ files = <<>>
    /\ enum = NoEnum
    /\ call = NoCall
    /\ uploaded = {}
    /\ asked = 0
    /\ upload_sent = FALSE
    /\ logs = 0

(***************************************************************************)
(* The start button                                                        *)
(***************************************************************************)
\* Mutant of StartEnabled: the button is never disabled
StartAlways == TRUE

\* ui.add_enabled_ui(!is_processing, ...): the button takes clicks only when idle
StartEnabled == ~is_processing

\* Mutant of RunFlagAtStart: the flag is left as it was
RunFlagLeftUnset == FALSE

\* *is_processing.lock().unwrap() = true, before the thread is spawned
RunFlagAtStart == TRUE

\* The checks between the click and the reset: "ok" or the rejection
\* Mutant of Validate: the API key is not looked at
ValidateNoKeyCheck(use_local, urls, single_file, is_file, is_dir, api_key) ==
    IF ~use_local /\ ~(\A i \in 1..Len(urls) : urls[i].text = "disk.yandex.ru/d/")
        THEN "not_yandex"
    ELSE IF use_local /\ single_file # <<>> /\ ~is_file
        THEN "not_a_file"
    ELSE IF use_local /\ single_file # <<>> /\ ~is_media_file(single_file)
        THEN "not_media"
    ELSE IF use_local /\ single_file = <<>> /\ ~is_dir
        THEN "not_a_dir"
    ELSE "ok"

Validate(use_local_path, urls, single_file_path, single_is_file, local_is_dir, api_key) ==
    IF ~use_local_path /\ ~(\A i \in 1..Len(urls) : urls[i].text = "disk.yandex.ru/d/")
        THEN "not_yandex"
    ELSE IF use_local_path /\ single_file_path # <<>> /\ ~single_is_file
        THEN "not_a_file"
    ELSE IF use_local_path /\ single_file_path # <<>> /\ ~is_media_file(single_file_path)
        THEN "not_media"
    ELSE IF use_local_path /\ single_file_path = <<>> /\ ~local_is_dir
        THEN "not_a_dir"
    ELSE IF api_key = <<>>
        THEN "no_api_key"
    ELSE "ok"

\* urls.split(',').map(trim).filter(non-empty): the shares of the run
PublicKeys(urls) == SelectSeq(urls, LAMBDA u : u.text # "")

\* The worker closure's first position
Spawn(lines, use_local_path, urls, single_file_path, local, api_key) ==
    /\ is_processing' = RunFlagAtStart
    /\ processed_files' = 0
    /\ total_files' = Some(Len(ParseVendorCodes(lines)))
    /\ start_time' = TRUE
    /\ failed_vendor_codes' = <<>>
    /\ threads' = threads + 1
    /\ pc' = "init"
    /\ run' = [vendor_codes |-> ParseVendorCodes(lines),
               mode |-> Mode(use_local_path, single_file_path),
               api_key |-> api_key,
               public_keys |-> PublicKeys(urls),
               local |-> local,
               single_file_path |-> single_file_path,
               file_names |-> lines]
    /\ idx' = 0
    /\ files' = <<>>
    /\ enum' = NoEnum
    /\ call' = NoCall
    /\ uploaded' = {}
    /\ asked' = 0
    /\ upload_sent' = FALSE

\* What the boxes may hold at a click; a box the chosen mode never reads is left empty
StartInputs ==
    [use_local_path : {FALSE}, urls : UrlInputs, single_file_path : {<<>>},
     single_is_file : {FALSE}, local_is_dir : {FALSE}, local : {<<>>}]
    \cup
    [use_local_path : {TRUE}, urls : {<<NoLink("")>>}, single_file_path : {<<>>},
     single_is_file : {FALSE}, local_is_dir : {TRUE}, local : LocalFolders]
    \cup
    [use_local_path : {TRUE}, urls : {<<NoLink("")>>}, single_file_path : {<<>>},
     single_is_file : {FALSE}, local_is_dir : {FALSE}, local : {<<>>}]
    \cup
    [use_local_path : {TRUE}, urls : {<<NoLink("")>>},
     single_file_path : SingleFiles \ {<<>>}, single_is_file : BOOLEAN,
     local_is_dir : {FALSE}, local : {<<>>}]

\* A click on the start button, with the boxes as the user left them
Start ==
    /\ StartEnabled
    /\ \E lines \in LineInputs, in \in StartInputs, api_key \in ApiKeys :
         /\ file_names' = lines
         /\ IF Validate(in.use_local_path, in.urls, in.single_file_path,
                        in.single_is_file, in.local_is_dir, api_key) = "ok"
            THEN Spawn(lines, in.use_local_path, in.urls, in.single_file_path,
                       in.local, api_key)
            ELSE UNCHANGED <<is_processing, total_files, processed_files,
                             failed_vendor_codes, start_time, threads, pc, run, idx,
                             files, enum, call, uploaded, history>>
    /\ UNCHANGED logs

\* The retry button: the failed codes become the input
RetryFailed ==
    /\ failed_vendor_codes # <<>>
    /\ ~is_processing
    /\ file_names' = failed_vendor_codes
    /\ UNCHANGED <<is_processing, total_files, processed_files, failed_vendor_codes,
                   start_time, threads, pc, run, idx, files, enum, call, uploaded,
                   history, logs>>

(***************************************************************************)
(* The worker thread: setup                                                *)
(***************************************************************************)
shared ==
    <<file_names, total_files, processed_files, failed_vendor_codes, start_time, logs>>

\* The closure returns: the thread is gone and its locals with it
ThreadEnds ==
    /\ threads' = threads - 1
    /\ run' = NoRun
    /\ idx' = 0
    /\ files' = <<>>
    /\ enum' = NoEnum
    /\ call' = NoCall
    /\ uploaded' = {}
    /\ asked' = 0
    /\ upload_sent' = FALSE

\* Mutant of Abort: the thread returns and leaves the flag as it is
AbortFlagKept ==
    /\ is_processing' = is_processing
    /\ pc' = "aborted"
    /\ ThreadEnds

\* *is_processing.lock().unwrap() = false; return;  -- a setup failure ends the thread
Abort ==
    /\ is_processing' = FALSE
    /\ pc' = "aborted"
    /\ ThreadEnds

\* HeaderValue::from_str: a header value holds no control character
HeaderValueOk(key) == \A i \in 1..Len(key) : key[i] # "\n"

\* WbUploader::new
WbUploaderNew(api_key) == api_key # <<>> /\ HeaderValueOk(api_key)

WorkerInit ==
    /\ pc = "init"
    /\ IF WbUploaderNew(run.api_key)
       THEN /\ pc' = run.mode
            /\ UNCHANGED <<is_processing, threads, run, idx, files, enum, call, uploaded,
                           history>>
       ELSE Abort
    /\ UNCHANGED shared

(***************************************************************************)
(* Downloader::find_files and find_files_for_url                           *)
(***************************************************************************)
\* max_attempts of the four retry loops
MaxAttempts == 3
FileMaxAttempts == 3
ListMaxAttempts == 3
LinkMaxAttempts == 3

Concat(path, name) == IF path = <<"/">> THEN path \o name ELSE path \o <<"/">> \o name

Frame(path, dir) ==
    [path |-> path, dir |-> dir, page |-> 0, files |-> <<>>, subdirs |-> <<>>, k |-> 0]

TargetPrefixes == {run.vendor_codes[i] : i \in 1..Len(run.vendor_codes)}

\* target_prefixes.is_subset(found_prefixes)
AllFound(found) == TargetPrefixes \subseteq found

\* The loop over the items of one page: acc is [files, subdirs, found]
RECURSIVE ScanItems(_, _, _)
ScanItems(items, path, acc) ==
    IF items = <<>> THEN acc
    ELSE
      LET item == Head(items)
          base_name == to_lowercase(item.name)
          m == LongestPrefixIndex(base_name, run.vendor_codes)
          articul == run.vendor_codes[m]
          photo == PhotoNumber(base_name, articul)
          next ==
            IF item.item_type = "file" /\ is_media_file(item.name)
            THEN IF m = 0 THEN acc
                 ELSE IF photo = <<>>
                   THEN [acc EXCEPT !.found = @ \cup {articul}]
                   ELSE [acc EXCEPT !.found = @ \cup {articul},
                                    !.files = Append(@, [name |-> item.name,
                                                         path |-> Concat(path, item.name),
                                                         articul |-> articul,
                                                         photo_number |-> photo[1]])]
            ELSE IF item.item_type = "dir"
            THEN [acc EXCEPT !.subdirs =
                     Append(@, [path |-> Concat(path, item.name), dir |-> item.dir])]
            ELSE acc
      IN ScanItems(Tail(items), path, next)

Top(stack) == stack[Len(stack)]
Pop(stack) == SubSeq(stack, 1, Len(stack) - 1)

\* A call of find_files_for_url returns `ok`/`result` to its caller: a parent
\* call goes on with its loop over the subdirectories, find_files with its loop over
\* the public keys. The value is the enumeration state at the next listing request,
\* or with status "ok"/"err" when find_files itself returns.
\* Mutant of Merged: a failing subdirectory costs the parent call its own files
MergedDropsParent(parent, ok, result) ==
    IF ok THEN [parent EXCEPT !.files = @ \o result] ELSE [parent EXCEPT !.files = <<>>]

\* Mutant of Merged: the files of a subdirectory go in front of the parent's own
MergedSubdirFirst(parent, ok, result) ==
    IF ok THEN [parent EXCEPT !.files = result \o @] ELSE parent

\* match self.find_files_for_url(..) { Ok(sub_files) => files.extend(sub_files),
\*                                     Err(e) => { log } }
Merged(parent, ok, result) ==
    IF ok THEN [parent EXCEPT !.files = @ \o result] ELSE parent

\* Mutant of SubdirLoopEnds: the loop ends only after the last subdirectory
SubdirLoopEndsAtLast(found, parent) == parent.k >= Len(parent.subdirs)

\* for subdir in subdirs { .. if target_prefixes.is_subset(found_prefixes) { break; } }
SubdirLoopEnds(found, parent) == AllFound(found) \/ parent.k >= Len(parent.subdirs)

RECURSIVE Return(_, _, _)
Return(e, ok, result) ==
    LET below == Pop(e.stack)
    IN IF below = <<>>
       THEN IF ~ok THEN [e EXCEPT !.stack = <<>>, !.status = "err"]
            ELSE LET all == e.files \o result
                 IN IF AllFound(e.found) \/ e.root >= Len(run.public_keys)
                    THEN [e EXCEPT !.stack = <<>>, !.files = all, !.status = "ok"]
                    ELSE [e EXCEPT !.stack = <<Frame(<<"/">>, run.public_keys[e.root + 1].tree)>>,
                                   !.files = all, !.root = @ + 1, !.attempts = 0]
       ELSE LET parent == Top(below)
                merged == Merged(parent, ok, result)
                up == [e EXCEPT !.stack = Append(Pop(below), merged)]
            IN IF SubdirLoopEnds(e.found, parent)
               THEN Return(up, TRUE, merged.files)
               ELSE LET sub == parent.subdirs[parent.k + 1]
                    IN [e EXCEPT !.stack = Append(Append(Pop(below), [merged EXCEPT !.k = @ + 1]),
                                                  Frame(sub.path, sub.dir)),
                                 !.attempts = 0]

\* The paging loop of the top call has ended: its loop over the subdirectories starts
EnterSubdirs(e) ==
    LET top == Top(e.stack)
    IN IF top.subdirs = <<>> THEN Return(e, TRUE, top.files)
       ELSE [e EXCEPT !.stack = Append(Append(Pop(e.stack), [top EXCEPT !.k = 1]),
                                       Frame(top.subdirs[1].path, top.subdirs[1].dir)),
                      !.attempts = 0]

\* The page the share serves for the top call's path at its offset
PageAt(frame) == IF frame.page < Len(frame.dir) THEN frame.dir[frame.page + 1] ELSE <<>>

\* Mutant of ListGivesUp: the budget is compared before the failure is counted
ListGivesUpLate(attempts) == attempts >= ListMaxAttempts

\* attempts += 1; if attempts >= max_attempts { return Err(..) }
ListGivesUp(attempts) == attempts + 1 >= ListMaxAttempts

\* One listing request of the top call and what follows until the next request
AfterListing(e, resp) ==
    LET top == Top(e.stack)
        items == PageAt(top)
        acc == ScanItems(items, top.path,
                         [files |-> top.files, subdirs |-> top.subdirs, found |-> e.found])
        scanned == [top EXCEPT !.files = acc.files, !.subdirs = acc.subdirs, !.page = @ + 1]
        after == [e EXCEPT !.stack = Append(Pop(e.stack), scanned),
                           !.found = acc.found, !.attempts = 0]
    IN CASE resp = "transport" ->
              IF ListGivesUp(e.attempts) THEN Return(e, FALSE, <<>>)
              ELSE [e EXCEPT !.attempts = @ + 1]
         [] resp \in {"status", "body", "parse"} -> Return(e, FALSE, <<>>)
         [] OTHER ->
              IF items = <<>> THEN EnterSubdirs(e)
              ELSE IF AllFound(acc.found) THEN EnterSubdirs(after)
              ELSE after

ListResponses == {"ok", "transport", "status", "body", "parse"}

\* find_files before its first request: the first public key, nothing found
FirstListing ==
    [root |-> 1, stack |-> <<Frame(<<"/">>, run.public_keys[1].tree)>>,
     found |-> {}, files |-> <<>>, attempts |-> 0, status |-> "run",
     requests |-> 0, last |-> "none"]

\* Downloader::new: Config::new can fail
RemoteSetup ==
    /\ pc = "remote"
    /\ \E config_ok \in BOOLEAN :
         IF config_ok
         THEN /\ enum' = FirstListing
              /\ pc' = "enum"
              /\ UNCHANGED <<is_processing, threads, run, idx, files, call, uploaded,
                             history>>
         ELSE Abort
    /\ UNCHANGED shared

\* The position after enumeration: the loop over the vendor codes
FirstCode == IF run.vendor_codes = <<>> THEN "finish" ELSE "nm_id"

ListRequest ==
    /\ pc = "enum"
    /\ \E resp \in ListResponses :
         LET e == AfterListing([enum EXCEPT !.requests = @ + 1, !.last = resp], resp)
         IN CASE e.status = "err" -> Abort
              [] e.status = "ok" ->
                   /\ enum' = [e EXCEPT !.last = IF @ = "ok" THEN "none" ELSE "failed"]
                   /\ files' = e.files
                   /\ idx' = 1
                   /\ pc' = FirstCode
                   /\ UNCHANGED <<is_processing, threads, run, call, uploaded, history>>
              [] OTHER ->
                   /\ enum' = e
                   /\ UNCHANGED <<is_processing, threads, pc, files, idx, run, call, uploaded,
                                   history>>
    /\ UNCHANGED shared

(***************************************************************************)
(* WbUploader                                                              *)
(***************************************************************************)
\* What the cards/list endpoint may answer: a failure, or 2xx with the nmIDs of
\* the cards found
NmResponses ==
    { [kind |-> "transport", cards |-> <<>>], [kind |-> "body", cards |-> <<>>],
      [kind |-> "status", cards |-> <<>>], [kind |-> "parse", cards |-> <<>>],
      [kind |-> "2xx", cards |-> <<>>], [kind |-> "2xx", cards |-> <<7>>],
      [kind |-> "2xx", cards |-> <<7, 9>>] }

\* Mutant of get_nm_id_by_vendor_code: the last card instead of the first
get_nm_id_of_last_card(resp) ==
    IF resp.kind = "2xx" /\ resp.cards # <<>> THEN <<resp.cards[Len(resp.cards)]>> ELSE <<>>

\* get_nm_id_by_vendor_code: <<nm_id>> for Ok(nm_id), <<>> for Err
get_nm_id_by_vendor_code(resp) ==
    IF resp.kind = "2xx" /\ resp.cards # <<>> THEN <<resp.cards[1]>> ELSE <<>>

UploadResponses == {"2xx", "429", "status", "body", "transport"}

\* Mutant of UploadLinksTurn: every failed request is retried within the budget
UploadLinksTurnRetryAll(attempts, resp) ==
    IF resp = "2xx" THEN "ok"
    ELSE IF attempts >= 3 THEN "err"
    ELSE "retry"

\* One turn of the loop of upload_links after its request was answered:
\* "ok" (counter incremented), "err", or "retry" (sleep, attempts += 1)
UploadLinksTurn(attempts, resp) ==
    CASE resp = "2xx" -> "ok"
      [] resp = "429" -> IF attempts >= MaxAttempts THEN "err" ELSE "retry"
      [] resp = "transport" -> IF attempts >= MaxAttempts THEN "err" ELSE "retry"
      [] OTHER -> "err"

\* The same turn in upload_local_file
UploadFileTurn(attempts, resp) ==
    CASE resp = "2xx" -> "ok"
      [] resp = "429" -> IF attempts >= FileMaxAttempts THEN "err" ELSE "retry"
      [] resp = "transport" -> IF attempts >= FileMaxAttempts THEN "err" ELSE "retry"
      [] OTHER -> "err"

\* Mutant of ProcessedAfterLinks: one count per URL
ProcessedPerUrl(processed, urls) == processed + Len(urls)

\* upload_links on success: *processed += 1
ProcessedAfterLinks(processed, urls) == processed + 1

\* upload_local_file on success: *processed += 1
ProcessedAfterFile(processed) == processed + 1

\* Mutant of UrlValid: any scheme passes
UrlAnyScheme(url) == TRUE

\* upload_links checks every URL before the first request
UrlValid(url) == url.scheme \in {"http://", "https://", "file://"}

(***************************************************************************)
(* The worker thread: the loop over the vendor codes                       *)
(***************************************************************************)
VendorCode == run.vendor_codes[idx]

\* Mutant of RelevantFiles: only the first file of the code is kept
RelevantFilesFirstOnly(code) ==
    LET all == SelectSeq(files, LAMBDA f : f.articul = code)
    IN IF all = <<>> THEN <<>> ELSE <<all[1]>>

\* files.iter().filter(|f| f.articul == vendor_code)
RelevantFiles(code) == SelectSeq(files, LAMBDA f : f.articul = code)

\* Mutant of PushFailed: the code is put in front of the list
PushFailedInFront == failed_vendor_codes' = <<VendorCode>> \o failed_vendor_codes

\* failed_vendor_codes.push(vendor_code.clone())
PushFailed == failed_vendor_codes' = Append(failed_vendor_codes, VendorCode)

\* Mutant of GoToCode: after the second code the loop goes back to the first one
GoToCodeAgain(i) ==
    /\ idx' = IF i > 2 THEN 1 ELSE i
    /\ pc' = IF i > Len(run.vendor_codes) /\ i <= 2 THEN "finish" ELSE "nm_id"

\* Mutant of GoToCode: the source is enumerated again before each code
GoToCodeRescan(i) ==
    /\ idx' = i
    /\ pc' = IF i > Len(run.vendor_codes) THEN "finish" ELSE run.mode

\* The loop goes to the code at position i, or ends
GoToCode(i) ==
    /\ idx' = i
    /\ pc' = IF i > Len(run.vendor_codes) THEN "finish" ELSE "nm_id"

\* Mutant of GoToCount: the loop is left once a code's outcome is known
BreakAfterCode == pc' = "finish" /\ UNCHANGED idx

\* The code's outcome is known: the block that counts it comes next
GoToCount == pc' = "count" /\ UNCHANGED idx

\* Remote mode: product search, the files of the code, the Downloader for its links
RemoteGetNmId ==
    /\ pc = "nm_id"
    /\ run.mode = "remote"
    /\ \E resp \in NmResponses, config_ok \in BOOLEAN :
         LET nm == get_nm_id_by_vendor_code(resp)
             relevant_files == RelevantFiles(VendorCode)
         IN IF nm = <<>>
            THEN PushFailed /\ GoToCount /\ UNCHANGED call
            ELSE IF relevant_files = <<>> \/ ~config_ok
            THEN PushFailed /\ GoToCode(idx + 1) /\ UNCHANGED call
            ELSE /\ call' = [kind |-> "link", nm_id |-> nm[1], files |-> relevant_files,
                             file |-> 1, key |-> 1, attempts |-> 0, urls |-> <<>>,
                             requests |-> 0, last |-> "none"]
                 /\ pc' = "link"
                 /\ UNCHANGED <<idx, failed_vendor_codes>>
    /\ asked' = idx
    /\ UNCHANGED <<file_names, is_processing, total_files, processed_files, start_time,
                   threads, run, files, enum, uploaded, upload_sent, logs>>

LinkResponses == {"https", "ftp", "parse", "body", "401", "status", "transport"}

\* Mutant of NextKey: a file that no public key resolves is left out of the batch
NextKeySkipsFile(c) ==
    IF c.key < Len(run.public_keys)
    THEN [c EXCEPT !.key = @ + 1, !.attempts = 0]
    ELSE IF c.file < Len(c.files)
    THEN [c EXCEPT !.file = @ + 1, !.key = 1, !.attempts = 0]
    ELSE [c EXCEPT !.kind = "link_ok"]

\* get_download_link gives up on the current public key: the next one, or Err
NextKey(c) ==
    IF c.key < Len(run.public_keys)
    THEN [c EXCEPT !.key = @ + 1, !.attempts = 0]
    ELSE [c EXCEPT !.kind = "link_err"]

\* Mutant of LinkGivesUp: the budget is compared before the failure is counted
LinkGivesUpLate(attempts) == attempts >= LinkMaxAttempts

\* attempts += 1; if attempts >= max_attempts { break; }
LinkGivesUp(attempts) == attempts + 1 >= LinkMaxAttempts

\* One request of get_download_link and what follows in generate_media_json
AfterLink(c, resp) ==
    LET file == c.files[c.file]
        url == [scheme |-> IF resp = "https" THEN "https://" ELSE "ftp://", path |-> file.path]
    IN CASE resp \in {"https", "ftp"} ->
              IF c.file < Len(c.files)
              THEN [c EXCEPT !.urls = Append(@, url), !.file = @ + 1, !.key = 1, !.attempts = 0]
              ELSE [c EXCEPT !.urls = Append(@, url), !.kind = "link_ok"]
         [] resp \in {"parse", "body"} -> [c EXCEPT !.kind = "link_err"]
         [] resp = "401" -> NextKey(c)
         [] OTHER ->
              IF LinkGivesUp(c.attempts) THEN NextKey(c)
              ELSE [c EXCEPT !.attempts = @ + 1]

LinkRequest ==
    /\ pc = "link"
    /\ \E resp \in LinkResponses :
         LET c == AfterLink([call EXCEPT !.requests = @ + 1, !.last = resp], resp)
             links == [kind |-> "upload_links", nm_id |-> c.nm_id, urls |-> c.urls,
                       attempts |-> 0, requests |-> 0, start |-> processed_files,
                       last |-> "none"]
         IN CASE c.kind = "link_err" ->
                   /\ PushFailed
                   /\ GoToCount
                   /\ call' = [kind |-> "link_err", resolved |-> Len(c.urls)]
              [] c.kind = "link_ok" ->
                   IF \A i \in 1..Len(c.urls) : UrlValid(c.urls[i])
                   THEN /\ call' = links
                        /\ pc' = "upload_links"
                        /\ UNCHANGED <<idx, failed_vendor_codes>>
                   ELSE /\ PushFailed
                        /\ GoToCount
                        /\ call' = [links EXCEPT !.kind = "upload_failed"]
              [] OTHER -> call' = c /\ UNCHANGED <<pc, idx, failed_vendor_codes>>
    /\ asked' = idx
    /\ UNCHANGED <<file_names, is_processing, total_files, processed_files, start_time,
                   threads, run, files, enum, uploaded, upload_sent, logs>>

\* One request of upload_links and the caller's handling of its result
UploadLinksRequest ==
    /\ pc = "upload_links"
    /\ \E resp \in UploadResponses :
         LET turn == UploadLinksTurn(call.attempts, resp)
         IN CASE turn = "ok" ->
                   /\ processed_files' = ProcessedAfterLinks(processed_files, call.urls)
                   /\ uploaded' = uploaded \cup {idx}
                   /\ call' = [call EXCEPT !.requests = @ + 1, !.kind = "uploaded",
                                            !.last = resp]
                   /\ GoToCount
                   /\ UNCHANGED failed_vendor_codes
              [] turn = "err" ->
                   /\ PushFailed
                   /\ call' = [call EXCEPT !.requests = @ + 1, !.kind = "upload_failed",
                                            !.last = resp]
                   /\ GoToCount
                   /\ UNCHANGED <<processed_files, uploaded>>
              [] OTHER ->
                   /\ call' = [call EXCEPT !.requests = @ + 1, !.attempts = @ + 1,
                                            !.last = resp]
                   /\ UNCHANGED <<pc, idx, processed_files, failed_vendor_codes, uploaded>>
    /\ asked' = idx
    /\ upload_sent' = TRUE
    /\ UNCHANGED <<file_names, is_processing, total_files, start_time, threads, run,
                   files, enum, logs>>

\* Remote mode, the block that ends the loop body: processed += 1 (and the progress line)
RemoteCount ==
    /\ pc = "count"
    /\ run.mode = "remote"
    /\ processed_files' = processed_files + 1
    /\ GoToCode(idx + 1)
    /\ call' = NoCall
    /\ UNCHANGED <<file_names, is_processing, total_files, failed_vendor_codes,
                   start_time, threads, run, files, enum, uploaded, history, logs>>

(***************************************************************************)
(* Local folder mode                                                       *)
(***************************************************************************)
\* scan_dir over the entries the walk meets: the descriptors of the classified files
RECURSIVE ScanLocal(_, _)
ScanLocal(names, acc) ==
    IF names = <<>> THEN acc
    ELSE
      LET name == Head(names)
          base_name == to_lowercase(name)
          m == LongestPrefixIndex(base_name, run.vendor_codes)
          articul == run.vendor_codes[m]
          photo == PhotoNumber(base_name, articul)
          next ==
            IF is_media_file(name) /\ m # 0 /\ photo # <<>>
            THEN Append(acc, [name |-> name, path |-> name, articul |-> articul,
                              photo_number |-> photo[1]])
            ELSE acc
      IN ScanLocal(Tail(names), next)

\* Downloader::new, then find_local_files: a failure of either ends the run
LocalSetup ==
    /\ pc = "local"
    /\ \E config_ok \in BOOLEAN, scan_ok \in BOOLEAN :
         IF config_ok /\ scan_ok
         THEN /\ files' = ScanLocal(run.local, <<>>)
              /\ idx' = 1
              /\ pc' = FirstCode
              /\ UNCHANGED <<is_processing, threads, run, enum, call, uploaded, history>>
         ELSE Abort
    /\ UNCHANGED shared

UploadFileCall(nm_id, fs) ==
    [kind |-> "upload_file", nm_id |-> nm_id, files |-> fs, file |-> 1, attempts |-> 0,
     requests |-> 0]

\* Local mode: product search and the files of the code
LocalGetNmId ==
    /\ pc = "nm_id"
    /\ run.mode = "local"
    /\ \E resp \in NmResponses :
         LET nm == get_nm_id_by_vendor_code(resp)
             relevant_files == RelevantFiles(VendorCode)
         IN IF nm = <<>>
            THEN PushFailed /\ GoToCount /\ UNCHANGED call
            ELSE IF relevant_files = <<>>
            THEN PushFailed /\ GoToCode(idx + 1) /\ UNCHANGED call
            ELSE /\ call' = UploadFileCall(nm[1], relevant_files)
                 /\ pc' = "upload_file"
                 /\ UNCHANGED <<idx, failed_vendor_codes>>
    /\ asked' = idx
    /\ UNCHANGED <<file_names, is_processing, total_files, processed_files, start_time,
                   threads, run, files, enum, uploaded, upload_sent, logs>>

\* What upload_local_file may meet: before its first request the file may be
\* missing or unreadable
UploadFileResponses(c) ==
    IF c.requests = 0 THEN UploadResponses \cup {"missing", "unreadable"}
    ELSE UploadResponses

\* upload_local_file returned for the current file: the next file of the code, or
\* the end of the code's block
AfterFile(c, result) ==
    IF c.file < Len(c.files)
    THEN /\ call' = [c EXCEPT !.file = @ + 1, !.attempts = 0, !.requests = 0]
         /\ UNCHANGED <<pc, idx>>
    ELSE /\ call' = [c EXCEPT !.kind = result]
         /\ pc' = IF run.mode = "single" THEN "single_count" ELSE "count"
         /\ UNCHANGED idx

\* One step of upload_local_file (the file check or one request) and the caller's
\* handling of its result
UploadFileRequest ==
    /\ pc = "upload_file"
    /\ \E resp \in UploadFileResponses(call) :
         LET sent == IF resp \in {"missing", "unreadable"} THEN 0 ELSE 1
             turn == UploadFileTurn(call.attempts, resp)
             c == [call EXCEPT !.requests = @ + sent]
         IN /\ CASE turn = "ok" ->
                   /\ processed_files' = ProcessedAfterFile(processed_files)
                   /\ uploaded' = uploaded \cup {idx}
                   /\ AfterFile(c, "uploaded")
                   /\ UNCHANGED failed_vendor_codes
              [] turn = "err" ->
                   /\ PushFailed
                   /\ AfterFile(c, "upload_failed")
                   /\ UNCHANGED <<processed_files, uploaded>>
              [] OTHER ->
                   /\ call' = [c EXCEPT !.attempts = @ + 1]
                   /\ UNCHANGED <<pc, idx, processed_files, failed_vendor_codes, uploaded>>
            /\ asked' = IF sent = 1 THEN idx ELSE asked
            /\ upload_sent' = (upload_sent \/ sent = 1)
    /\ UNCHANGED <<file_names, is_processing, total_files, start_time, threads, run,
                   files, enum, logs>>

\* Local mode, the block that ends the loop body
LocalCount ==
    /\ pc = "count"
    /\ run.mode = "local"
    /\ processed_files' = processed_files + 1
    /\ GoToCode(idx + 1)
    /\ call' = NoCall
    /\ UNCHANGED <<file_names, is_processing, total_files, failed_vendor_codes,
                   start_time, threads, run, files, enum, uploaded, history, logs>>

(***************************************************************************)
(* Single-file mode                                                        *)
(***************************************************************************)
\* Downloader::new, then the file is matched to the first vendor code that prefixes
\* its name; idx records the position of that code
\* Single-file mode: the descriptor of the file, <<>> where the worker returns
SingleFileInfo(name) ==
    LET base_name == to_lowercase(name)
        m == FirstPrefixIndex(base_name, run.vendor_codes)
        photo == PhotoNumber(base_name, run.vendor_codes[m])
    IN IF m # 0 /\ photo # <<>>
       THEN <<[name |-> name, path |-> name, articul |-> run.vendor_codes[m],
               photo_number |-> photo[1]]>>
       ELSE <<>>

SingleSetup ==
    /\ pc = "single"
    /\ \E config_ok \in BOOLEAN :
         LET name == run.single_file_path
             file_info == SingleFileInfo(name)
         IN IF config_ok /\ file_info # <<>>
            THEN /\ files' = file_info
                 /\ idx' = FirstPrefixIndex(to_lowercase(name), run.vendor_codes)
                 /\ pc' = "single_nm"
                 /\ UNCHANGED <<is_processing, threads, run, enum, call, uploaded, history>>
            ELSE Abort
    /\ UNCHANGED shared

\* Single-file mode: product search for the file's code
SingleGetNmId ==
    /\ pc = "single_nm"
    /\ \E resp \in NmResponses :
         LET nm == get_nm_id_by_vendor_code(resp)
         IN IF nm = <<>>
            THEN PushFailed /\ pc' = "single_count" /\ UNCHANGED call
            ELSE /\ call' = UploadFileCall(nm[1], files)
                 /\ pc' = "upload_file"
                 /\ UNCHANGED failed_vendor_codes
    /\ asked' = idx
    /\ UNCHANGED <<file_names, is_processing, total_files, processed_files, start_time,
                   threads, run, idx, files, enum, uploaded, upload_sent, logs>>

\* Single-file mode: processed += 1 after the one file
SingleCount ==
    /\ pc = "single_count"
    /\ processed_files' = processed_files + 1
    /\ pc' = "finish"
    /\ call' = NoCall
    /\ UNCHANGED <<file_names, is_processing, total_files, failed_vendor_codes,
                   start_time, threads, run, idx, files, enum, uploaded, history, logs>>

(***************************************************************************)
(* Completion                                                              *)
(***************************************************************************)
\* Mutant of Finish: the thread ends without clearing the flag
FinishFlagKept ==
    /\ pc = "finish"
    /\ is_processing' = is_processing
    /\ pc' = "done"
    /\ ThreadEnds
    /\ UNCHANGED shared

\* After the loop: the summary; a non-empty failed list is written to the closure's
\* own file_names (the Arc made from a clone of the text box at the click), which
\* goes away with the thread; then is_processing is cleared and the thread ends
Finish ==
    /\ pc = "finish"
    /\ is_processing' = FALSE
    /\ pc' = "done"
    /\ ThreadEnds
    /\ UNCHANGED shared

\* The profile panel's save button, never disabled: whatever the outcome (empty key,
\* profile saved, save failed) it pushes one line to the log
SaveApiKey ==
    /\ logs < MaxLogLines
    /\ logs' = logs + 1
    /\ UNCHANGED <<file_names, is_processing, total_files, processed_files,
                   failed_vendor_codes, start_time, threads, pc, run, idx, files, enum,
                   call, uploaded, history>>

Next ==
    \/ Start
    \/ RetryFailed
    \/ WorkerInit
    \/ RemoteSetup
    \/ ListRequest
    \/ RemoteGetNmId
    \/ LinkRequest
    \/ UploadLinksRequest
    \/ RemoteCount
    \/ LocalSetup
    \/ LocalGetNmId
    \/ UploadFileRequest
    \/ LocalCount
    \/ SingleSetup
    \/ SingleGetNmId
    \/ SingleCount
    \/ Finish

Spec == Init /\ [][Next]_vars

\* A step of the worker thread
Worker ==
    \/ WorkerInit
    \/ RemoteSetup
    \/ ListRequest
    \/ RemoteGetNmId
    \/ LinkRequest
    \/ UploadLinksRequest
    \/ RemoteCount
    \/ LocalSetup
    \/ LocalGetNmId
    \/ UploadFileRequest
    \/ LocalCount
    \/ SingleSetup
    \/ SingleGetNmId
    \/ SingleCount
    \/ Finish

\* The spawned thread is scheduled and every call it makes returns: the worker takes
\* its next step whenever it has one
FairSpec == Init /\ [][Next]_vars /\ WF_vars(Worker)

\* The pipeline together with the profile panel
NextUi ==
    \/ Next
    \/ SaveApiKey

SpecUi == Init /\ [][NextUi]_vars

(***************************************************************************)
(* Classification of one file name against one list of vendor codes, by    *)
(* each of the three places that classify                                   *)
(***************************************************************************)
Name_a0 == <<"a", "_", "0", ".", "p", "n", "g">>
Name_a1 == <<"a", "_", "1", ".", "p", "n", "g">>
Name_a007 == <<"a", "-", "0", "0", "7", ".", "j", "p", "g">>
Name_aBig ==
    <<"a", "_", "4", "2", "9", "4", "9", "6", "7", "2", "9", "6", ".", "p", "n", "g">>
Name_AB2 == <<"A", "B", "_", "2", ".", "p", "n", "g">>
Name_ab12 == <<"a", "b", "1", "2", ".", "p", "n", "g">>
Name_a2x == <<"a", "_", "2", "x", ".", "p", "n", "g">>

ClassifyNames ==
    { Name_a, Name_ab, Name_ab2, Name_a2, Name_x, Name_txt, Name_a0, Name_a1,
      Name_a007, Name_aBig, Name_AB2, Name_ab12, Name_a2x }

ClassifyCodes ==
    { <<CodeA>>, <<CodeA, CodeAB>>, <<CodeAB, CodeA>>, <<CodeA, <<"a", "_", "1">>>>,
      <<<<"A", "B">>>>, <<<<"b">>>> }

ClassifyInit ==
    /\ file_names = <<>>
    /\ is_processing = FALSE
    /\ total_files = None
    /\ processed_files = 0
    /\ failed_vendor_codes = <<>>
    /\ start_time = FALSE
    /\ threads = 0
    /\ pc = "classify"
    /\ \E codes \in ClassifyCodes, name \in ClassifyNames :
         run = [NoRun EXCEPT !.vendor_codes = codes, !.single_file_path = name]
    /\ idx = 0
    /\ files = <<>>
    /\ enum = NoEnum
    /\ call = NoCall
    /\ uploaded = {}
    /\ asked = 0
    /\ upload_sent = FALSE
    /\ logs = 0

ClassifyKeeps ==
    UNCHANGED <<file_names, is_processing, total_files, processed_files,
                failed_vendor_codes, start_time, threads, run, idx, enum, call, uploaded,
                asked, upload_sent, logs>>

\* find_files_for_url on a page that holds the one file
ClassifyRemote ==
    /\ pc = "classify"
    /\ files' = ScanItems(<<FileItem(run.single_file_path)>>, <<"/">>,
                          [files |-> <<>>, subdirs |-> <<>>, found |-> {}]).files
    /\ pc' = "classified_remote"
    /\ ClassifyKeeps

\* scan_dir on a folder that holds the one file
ClassifyLocal ==
    /\ pc = "classify"
    /\ files' = ScanLocal(<<run.single_file_path>>, <<>>)
    /\ pc' = "classified_local"
    /\ ClassifyKeeps

\* Single-file mode on the one file
ClassifySingle ==
    /\ pc = "classify"
    /\ files' = SingleFileInfo(run.single_file_path)
    /\ pc' = "classified_single"
    /\ ClassifyKeeps

ClassifyNext ==
    \/ ClassifyRemote
    \/ ClassifyLocal
    \/ ClassifySingle

SpecClassify == ClassifyInit /\ [][ClassifyNext]_vars

(***************************************************************************)
(* get_nm_id_by_vendor_code on one response of the cards/list endpoint      *)
(***************************************************************************)
MaxCards == 3

\* Card.nm_id
NmIds == {7, 8, 9}

\* A response: no response, an unreadable body, a body that is not a card list,
\* or a card list under a 2xx or another status
NmInputs ==
    { [kind |-> "transport", cards |-> <<>>], [kind |-> "body", cards |-> <<>>],
      [kind |-> "parse", cards |-> <<>>] }
    \cup [kind : {"2xx", "status"}, cards : SeqsUpTo(NmIds, MaxCards)]

NmInit ==
    /\ file_names = <<>>
    /\ is_processing = FALSE
    /\ total_files = None
    /\ processed_files = 0
    /\ failed_vendor_codes = <<>>
    /\ start_time = FALSE
    /\ threads = 0
    /\ pc = "nm_call"
    /\ run = NoRun
    /\ idx = 0
    /\ files = <<>>
    /\ enum = NoEnum
    /\ \E resp \in NmInputs : call = [kind |-> "nm_request", resp |-> resp]
    /\ uploaded = {}
    /\ asked = 0
    /\ upload_sent = FALSE
    /\ logs = 0

\* The call returns
NmLookup ==
    /\ pc = "nm_call"
    /\ call' = [kind |-> "nm_result", resp |-> call.resp,
                result |-> get_nm_id_by_vendor_code(call.resp)]
    /\ pc' = "nm_returned"
    /\ UNCHANGED <<file_names, is_processing, total_files, processed_files,
                   failed_vendor_codes, start_time, threads, run, idx, files, enum,
                   uploaded, asked, upload_sent, logs>>

SpecNmId == NmInit /\ [][NmLookup]_vars

(***************************************************************************)
(* find_local_files on a folder with subfolders                            *)
(***************************************************************************)
MaxEntries == 2

\* What read_dir yields: a file, a folder with its own entries, a folder that
\* read_dir cannot open, or an entry that is an Err
LocalFile(name) == [name |-> name, item_type |-> "file", entries |-> <<>>]
LocalDir(name, entries) == [name |-> name, item_type |-> "dir", entries |-> entries]
UnreadableDir(name) == [name |-> name, item_type |-> "unreadable", entries |-> <<>>]
BadEntry == [name |-> <<>>, item_type |-> "error", entries |-> <<>>]

LocalEntries ==
    { LocalFile(Name_a), LocalFile(Name_ab2), LocalFile(Name_x),
      LocalDir(<<"d">>, <<LocalFile(Name_ab2)>>),
      LocalDir(<<"e">>, <<LocalFile(Name_a), LocalDir(<<"f">>, <<LocalFile(Name_ab2)>>)>>),
      LocalDir(<<"g">>, <<>>),
      UnreadableDir(<<"u">>),
      BadEntry }

\* The folders of at most MaxEntries entries; the names in one folder differ
LocalTrees ==
    {t \in SeqsUpTo(LocalEntries, MaxEntries) :
       \A i, j \in 1..Len(t) : (i # j /\ t[i].name = t[j].name) => t[i] = BadEntry}

\* Every target code has a classified file among the names
AllFoundIn(names) ==
    \A c \in TargetPrefixes : \E i \in 1..Len(ScanLocal(names, <<>>)) :
        ScanLocal(names, <<>>)[i].articul = c

\* A walk in the manner of the remote enumeration: the loop over the entries ends
\* after a subfolder once every target code is found
RECURSIVE WalkUntil(_, _)
WalkUntil(entries, acc) ==
    IF entries = <<>> THEN acc
    ELSE LET e == Head(entries)
         IN IF e.item_type = "file" THEN WalkUntil(Tail(entries), Append(acc, e.name))
            ELSE IF e.item_type = "dir"
            THEN LET below == WalkUntil(e.entries, acc)
                 IN IF AllFoundIn(below) THEN below ELSE WalkUntil(Tail(entries), below)
            ELSE WalkUntil(Tail(entries), acc)

\* Mutant of WalkNames: early termination
WalkNamesEarlyExit(entries) == WalkUntil(entries, <<>>)

\* scan_dir: the names of the files the walk meets, in order; a subfolder is walked
\* where it is met, an Err entry is skipped
RECURSIVE WalkNames(_)
WalkNames(entries) ==
    IF entries = <<>> THEN <<>>
    ELSE LET e == Head(entries)
             here == IF e.item_type = "file" THEN <<e.name>>
                     ELSE IF e.item_type = "dir" THEN WalkNames(e.entries)
                     ELSE <<>>
         IN here \o WalkNames(Tail(entries))

\* scan_dir: fs::read_dir fails on no folder of the walk
RECURSIVE WalkOk(_)
WalkOk(entries) ==
    \A i \in 1..Len(entries) :
       /\ entries[i].item_type # "unreadable"
       /\ entries[i].item_type = "dir" => WalkOk(entries[i].entries)

WalkInit ==
    /\ file_names = <<>>
    /\ is_processing = FALSE
    /\ total_files = None
    /\ processed_files = 0
    /\ failed_vendor_codes = <<>>
    /\ start_time = FALSE
    /\ threads = 0
    /\ pc = "walk"
    /\ \E codes \in {<<CodeA>>, <<CodeA, CodeAB>>} :
         run = [NoRun EXCEPT !.vendor_codes = codes, !.mode = "local"]
    /\ idx = 0
    /\ files = <<>>
    /\ enum = NoEnum
    /\ \E tree \in LocalTrees : call = [kind |-> "walk", tree |-> tree]
    /\ uploaded = {}
    /\ asked = 0
    /\ upload_sent = FALSE
    /\ logs = 0

\* find_local_files returns: Ok(files), or Err when a folder cannot be read or a
\* matched file cannot be copied
Walk ==
    /\ pc = "walk"
    /\ \E copy_ok \in BOOLEAN :
         LET found == ScanLocal(WalkNames(call.tree), <<>>)
         IN IF WalkOk(call.tree) /\ (copy_ok \/ found = <<>>)
            THEN files' = found /\ pc' = "walked"
            ELSE files' = <<>> /\ pc' = "walk_failed"
    /\ UNCHANGED <<file_names, is_processing, total_files, processed_files,
                   failed_vendor_codes, start_time, threads, run, idx, enum, call,
                   uploaded, asked, upload_sent, logs>>

SpecWalk == WalkInit /\ [][Walk]_vars

(***************************************************************************)
(* One click on the start button of an idle application, with the log line *)
(* the handler pushes. `call` holds the boxes of the window as the user    *)
(* left them; the shared state is that of a fresh application or that left *)
(* by an earlier run.                                                      *)
(***************************************************************************)
\* total_files, processed_files, failed_vendor_codes, start_time at the click
IdleStates ==
    { [total |-> None, processed |-> 0, failed |-> <<>>, started |-> FALSE],
      [total |-> Some(1), processed |-> 2, failed |-> <<>>, started |-> TRUE],
      [total |-> Some(1), processed |-> 1, failed |-> <<CodeA>>, started |-> TRUE],
      [total |-> Some(2), processed |-> 2, failed |-> <<CodeA, CodeAB>>, started |-> TRUE] }

ClickInit ==
    /\ \E st \in IdleStates :
         /\ total_files = st.total
         /\ processed_files = st.processed
         /\ failed_vendor_codes = st.failed
         /\ start_time = st.started
    /\ file_names = <<>>
    /\ is_processing = FALSE
    /\ threads = 0
    /\ pc = "idle"
    /\ run = NoRun
    /\ idx = 0
    /\ files = <<>>
    /\ enum = NoEnum
    /\ \E lines \in LineInputs, in \in StartInputs, api_key \in ApiKeys :
         call = [kind |-> "boxes", lines |-> lines, in |-> in, api_key |-> api_key]
    /\ uploaded = {}
    /\ asked = 0
    /\ upload_sent = FALSE
    /\ logs = 0

\* The click handler: a rejected click pushes its error line and returns; an accepted
\* one pushes its first line, resets the shared state and spawns the worker
StartClick ==
    /\ StartEnabled
    /\ call.kind = "boxes"
    /\ logs < MaxLogLines
    /\ file_names' = call.lines
    /\ logs' = logs + 1
    /\ IF Validate(call.in.use_local_path, call.in.urls, call.in.single_file_path,
                   call.in.single_is_file, call.in.local_is_dir, call.api_key) = "ok"
       THEN Spawn(call.lines, call.in.use_local_path, call.in.urls,
                  call.in.single_file_path, call.in.local, call.api_key)
       ELSE UNCHANGED <<is_processing, total_files, processed_files, failed_vendor_codes,
                        start_time, threads, pc, run, idx, files, enum, call, uploaded,
                        history>>

SpecClick == ClickInit /\ [][StartClick]_vars

(***************************************************************************)
(* find_files on one share whose every listing request succeeds            *)
(***************************************************************************)
MaxPages == 2

\* The pages a share may serve; no name is on two of them
RemotePages ==
    { <<FileItem(Name_a), FileItem(Name_ab2)>>,
      <<DirItem(<<"d">>, << <<FileItem(Name_ab2)>>, <<FileItem(Name_a1)>> >>),
        FileItem(Name_a1)>>,
      <<FileItem(Name_x),
        DirItem(<<"e">>, << <<FileItem(Name_a),
                              DirItem(<<"f">>, << <<FileItem(Name_ab2)>> >>)>> >>)>>,
      <<FileItem(Name_a2), FileItem(Name_txt)>>,
      <<FileItem(Name_a007)>>,
      <<DirItem(<<"g">>, <<>>)>> }

RemoteTrees ==
    {t \in SeqsUpTo(RemotePages, MaxPages) : \A i, j \in 1..Len(t) : t[i] = t[j] => i = j}

\* The code lists; no file of the pages starts with b
EnumCodes == { <<CodeA>>, <<CodeA, <<"b">>>>, <<CodeA, CodeAB, <<"b">>>> }

\* The listing requests of find_files one after the other, each answered 2xx
RECURSIVE EnumerateOk(_)
EnumerateOk(e) ==
    IF e.status # "run" THEN e
    ELSE EnumerateOk(AfterListing([e EXCEPT !.requests = @ + 1, !.last = "ok"], "ok"))

EnumInit ==
    /\ file_names = <<>>
    /\ is_processing = FALSE
    /\ total_files = None
    /\ processed_files = 0
    /\ failed_vendor_codes = <<>>
    /\ start_time = FALSE
    /\ threads = 0
    /\ pc = "enum_call"
    /\ \E codes \in EnumCodes, tree \in RemoteTrees :
         run = [NoRun EXCEPT !.vendor_codes = codes, !.public_keys = <<Link(tree)>>]
    /\ idx = 0
    /\ files = <<>>
    /\ enum = NoEnum
    /\ call = NoCall
    /\ uploaded = {}
    /\ asked = 0
    /\ upload_sent = FALSE
    /\ logs = 0

\* find_files returns
EnumerateAll ==
    /\ pc = "enum_call"
    /\ enum' = EnumerateOk(FirstListing)
    /\ files' = enum'.files
    /\ pc' = "enumerated"
    /\ UNCHANGED <<file_names, is_processing, total_files, processed_files,
                   failed_vendor_codes, start_time, threads, run, idx, call, uploaded,
                   asked, upload_sent, logs>>

SpecEnum == EnumInit /\ [][EnumerateAll]_vars

(***************************************************************************)
(* The mutexes of logs and failed_vendor_codes, one acquisition per step.  *)
(* `call` holds the position of the UI thread in its frame, its copy of    *)
(* is_processing, and the owner of each mutex; `pc` is the worker's        *)
(* position. A guard that is dropped before the next acquisition (the      *)
(* is_processing mutex everywhere, logs in a block of its own) is taken    *)
(* and released within one step.                                           *)
(***************************************************************************)
LockInit ==
    /\ file_names = <<CodeA, CodeAB>>
    /\ is_processing = FALSE
    /\ total_files = None
    /\ processed_files = 0
    /\ failed_vendor_codes = <<>>
    /\ start_time = FALSE
    /\ threads = 0
    /\ pc = "idle"
    /\ run = NoRun
    /\ idx = 0
    /\ files = <<>>
    /\ enum = NoEnum
    /\ call = [kind |-> "frame", ui |-> "snapshot", is_processing |-> FALSE,
               logs |-> "free", failed |-> "free"]
    /\ uploaded = {}
    /\ asked = 0
    /\ upload_sent = FALSE
    /\ logs = 0

LockKeeps == UNCHANGED <<files, enum, uploaded, asked, upload_sent, logs>>

\* let is_processing = *self.is_processing.lock().unwrap();
UiSnapshot ==
    /\ call.ui = "snapshot"
    /\ call' = [call EXCEPT !.ui = "start", !.is_processing = is_processing]
    /\ UNCHANGED <<file_names, is_processing, total_files, processed_files,
                   failed_vendor_codes, start_time, threads, pc, run, idx>>
    /\ LockKeeps

\* The start button of the frame: not clicked or disabled; clicked and rejected
\* with a log line; or clicked and accepted, up to the first lines of the reset
UiStart ==
    /\ call.ui = "start"
    /\ \E clicked \in BOOLEAN, valid \in BOOLEAN :
         IF ~clicked \/ call.is_processing
         THEN /\ call' = [call EXCEPT !.ui = "retry"]
              /\ UNCHANGED <<is_processing, total_files, processed_files, start_time, run>>
         ELSE /\ call.logs = "free"
              /\ IF valid
                 THEN /\ is_processing' = TRUE
                      /\ processed_files' = 0
                      /\ total_files' = Some(Len(ParseVendorCodes(file_names)))
                      /\ start_time' = TRUE
                      /\ run' = [NoRun EXCEPT !.vendor_codes = ParseVendorCodes(file_names),
                                              !.file_names = file_names]
                      /\ call' = [call EXCEPT !.ui = "start_clear"]
                 ELSE /\ call' = [call EXCEPT !.ui = "snapshot"]
                      /\ UNCHANGED <<is_processing, total_files, processed_files,
                                     start_time, run>>
    /\ UNCHANGED <<file_names, failed_vendor_codes, threads, pc, idx>>
    /\ LockKeeps

\* failed_vendor_codes.lock().unwrap().clear(); std::thread::spawn(..)
UiStartClear ==
    /\ call.ui = "start_clear"
    /\ call.failed = "free"
    /\ failed_vendor_codes' = <<>>
    /\ threads' = threads + 1
    /\ pc' = IF run.vendor_codes = <<>> THEN "w_end" ELSE "w_code"
    /\ idx' = 1
    /\ call' = [call EXCEPT !.ui = "retry"]
    /\ UNCHANGED <<file_names, is_processing, total_files, processed_files, start_time,
                   run>>
    /\ LockKeeps

\* let failed = self.failed_vendor_codes.lock().unwrap(); the retry button, enabled
\* by !failed.is_empty() && !is_processing; the guard lives to the end of the closure
UiRetry ==
    /\ call.ui = "retry"
    /\ call.failed = "free"
    /\ \E clicked \in BOOLEAN :
         IF clicked /\ failed_vendor_codes # <<>> /\ ~call.is_processing
         THEN /\ file_names' = failed_vendor_codes
              /\ call' = [call EXCEPT !.ui = "retry_logs", !.failed = "ui"]
         ELSE /\ call' = [call EXCEPT !.ui = "snapshot"]
              /\ UNCHANGED file_names
    /\ UNCHANGED <<is_processing, total_files, processed_files, failed_vendor_codes,
                   start_time, threads, pc, run, idx>>
    /\ LockKeeps

\* let mut logs = self.logs.lock().unwrap(); logs.push(..); both guards dropped
UiRetryLogs ==
    /\ call.ui = "retry_logs"
    /\ call.logs = "free"
    /\ call' = [call EXCEPT !.ui = "snapshot", !.failed = "free"]
    /\ UNCHANGED <<file_names, is_processing, total_files, processed_files,
                   failed_vendor_codes, start_time, threads, pc, run, idx>>
    /\ LockKeeps

\* A pass of the loop over the codes that records no failure
WorkerCodeDone ==
    /\ pc = "w_code"
    /\ call.logs = "free"
    /\ idx' = idx + 1
    /\ pc' = IF idx + 1 > Len(run.vendor_codes) THEN "w_end" ELSE "w_code"
    /\ UNCHANGED <<is_processing, failed_vendor_codes, call>>
    /\ UNCHANGED <<file_names, total_files, processed_files, start_time, threads, run>>
    /\ LockKeeps

\* A failure branch: let mut logs = logs.lock().unwrap(); logs.push(..);
WorkerFailLogs ==
    /\ pc = "w_code"
    /\ call.logs = "free"
    /\ call' = [call EXCEPT !.logs = "worker"]
    /\ pc' = "w_has_logs"
    /\ UNCHANGED <<is_processing, failed_vendor_codes, idx>>
    /\ UNCHANGED <<file_names, total_files, processed_files, start_time, threads, run>>
    /\ LockKeeps

\* .. let mut failed_vendor_codes = failed_vendor_codes.lock().unwrap();
\* failed_vendor_codes.push(vendor_code.clone()); both guards dropped
WorkerFailPush ==
    /\ pc = "w_has_logs"
    /\ call.failed = "free"
    /\ failed_vendor_codes' = Append(failed_vendor_codes, run.vendor_codes[idx])
    /\ call' = [call EXCEPT !.logs = "free"]
    /\ idx' = idx + 1
    /\ pc' = IF idx + 1 > Len(run.vendor_codes) THEN "w_end" ELSE "w_code"
    /\ UNCHANGED is_processing
    /\ UNCHANGED <<file_names, total_files, processed_files, start_time, threads, run>>
    /\ LockKeeps

\* let failed = failed_vendor_codes.lock().unwrap();  (held to the closure's end)
WorkerEndLock ==
    /\ pc = "w_end"
    /\ call.failed = "free"
    /\ call' = [call EXCEPT !.failed = "worker"]
    /\ pc' = "w_end_logs"
    /\ UNCHANGED <<is_processing, failed_vendor_codes, idx>>
    /\ UNCHANGED <<file_names, total_files, processed_files, start_time, threads, run>>
    /\ LockKeeps

\* The two log lines of the completion block, each under its own guard of logs
WorkerEndLogs ==
    /\ pc \in {"w_end_logs", "w_end_logs2"}
    /\ call.logs = "free"
    /\ pc' = IF pc = "w_end_logs" THEN "w_end_logs2" ELSE "w_end_flag"
    /\ UNCHANGED <<is_processing, failed_vendor_codes, idx, call>>
    /\ UNCHANGED <<file_names, total_files, processed_files, start_time, threads, run>>
    /\ LockKeeps

\* *is_processing.lock().unwrap() = false; the closure ends and drops `failed`
WorkerEndFlag ==
    /\ pc = "w_end_flag"
    /\ is_processing' = FALSE
    /\ call' = [call EXCEPT !.failed = "free"]
    /\ pc' = "idle"
    /\ threads' = threads - 1
    /\ idx' = 0
    /\ UNCHANGED <<file_names, total_files, processed_files, failed_vendor_codes,
                   start_time, run>>
    /\ LockKeeps

LockNext ==
    \/ UiSnapshot
    \/ UiStart
    \/ UiStartClear
    \/ UiRetry
    \/ UiRetryLogs
    \/ WorkerCodeDone
    \/ WorkerFailLogs
    \/ WorkerFailPush
    \/ WorkerEndLock
    \/ WorkerEndLogs
    \/ WorkerEndFlag

SpecLocks == LockInit /\ [][LockNext]_vars

(***************************************************************************)
(* Claims                                                                  *)
(***************************************************************************)
\* The worker is inside upload_links, or upload_links has just returned
InUploadLinks ==
    run.mode = "remote" /\ call.kind \in {"upload_links", "uploaded", "upload_failed"}

\* C1: a call of upload_links sends at most 3 HTTP requests: after the 3rd request
\* answered 429 (or failed in transport) the call fails and no 4th request is sent.
C1_AtMostThreeRequests == InUploadLinks => call.requests <= MaxAttempts

\* C2: once totalCount is set, processedCount <= totalCount in every state.
C2_ProcessedWithinTotal ==
    total_files # None => processed_files <= total_files[1]

\* Every vendor code of the run had a successful upload and none failed
AllSucceeded ==
    /\ failed_vendor_codes = <<>>
    /\ uploaded = 1..Len(run.vendor_codes)

\* C3: a run in which every code succeeds (the endpoints always succeed), be it the
\* first run or a repeated one, ends with processedCount = totalCount and no failed code.
C3_SuccessfulRunCountsAll ==
    (pc = "finish" /\ AllSucceeded)
        => (processed_files = total_files[1] /\ failed_vendor_codes = <<>>)

\* C4: whenever the loop leaves a vendor code for the next one, whatever the code's
\* outcome, that step increments processedCount by exactly one.
C4_OneCountPerCode ==
    [][(pc \in {"nm_id", "count"} /\ idx' = idx + 1)
          => processed_files' = processed_files + 1]_vars

\* C5: over a call of upload_links the shared counter changes by exactly +1 when the
\* call succeeds, whatever the number of URLs and of retries, and not at all while
\* the call retries or when it fails.
C5_OneCountPerSuccessfulCall ==
    InUploadLinks =>
        processed_files = call.start + (IF call.kind = "uploaded" THEN 1 ELSE 0)

\* C5 witness: a call with two URLs has succeeded after exactly two retries
C5_Witness ==
    /\ InUploadLinks
    /\ call.kind = "uploaded"
    /\ Len(call.urls) = 2
    /\ call.attempts = 2
    /\ call.requests = 3

\* C6: in a run with a non-empty target set, once the found codes cover the target
\* set no further listing request is sent (no next page, no subdirectory, no later root).
C6_NoListingOnceAllFound ==
    [][(pc = "enum" /\ run.vendor_codes # <<>> /\ AllFound(enum.found))
          => enum'.requests <= enum.requests]_vars

\* C7: at most one worker thread exists at any time.
C7_AtMostOneRun == threads <= 1

\* C7 witness: a run is in the middle of an upload, with the start button disabled
C7_Witness == threads = 1 /\ is_processing /\ ~StartEnabled /\ pc = "upload_links"

\* C8: no run is spawned for an input without a vendor code: while a run is on, its
\* list of vendor codes is not empty.
C8_EmptyListRejected == is_processing => run.vendor_codes # <<>>

\* C9: when the run completes, every vendor code of the input was uploaded
\* successfully or is in failedCodes.
C9_EveryCodeHasOutcome ==
    pc = "finish" =>
        \A i \in 1..Len(run.vendor_codes) :
            \/ i \in uploaded
            \/ \E j \in 1..Len(failed_vendor_codes) :
                   failed_vendor_codes[j] = run.vendor_codes[i]

SetupPositions == {"init", "remote", "local", "single", "enum"}

RunPositions ==
    SetupPositions \cup
    {"nm_id", "link", "upload_links", "upload_file", "count", "single_nm",
     "single_count", "finish"}

\* C10: isRunning is true at every position of a run, enumeration included, up to the
\* point where the last outcome is recorded, and it is cleared only by completion or
\* by an abort during setup.
C10_RunningThroughout ==
    /\ [](pc \in RunPositions => is_processing)
    /\ [][(is_processing /\ ~is_processing')
             => (pc' = "done" \/ (pc' = "aborted" /\ pc \in SetupPositions))]_vars

\* C10 witness: the flag is set in the middle of enumeration, after a listing request
C10_Witness == pc = "enum" /\ enum.requests > 0 /\ is_processing

\* The positions of the worker inside the processing of a vendor code
CodePositions ==
    {"nm_id", "link", "upload_links", "upload_file", "count", "single_nm", "single_count"}

\* The modes that loop over the vendor codes of the input
LoopModes == {"remote", "local"}

\* C11: a failure while a vendor code is processed never aborts the run: from a
\* position inside a code the worker only goes on inside the loop or to completion,
\* with isRunning still set; in remote and local-folder mode the product searches go
\* from one code to the next without a gap, and at completion the last code of the
\* input has had its product search.
C11_FailureNeverAborts ==
    /\ [][(pc \in CodePositions)
             => (pc' \in (CodePositions \cup {"finish"}) /\ is_processing')]_vars
    /\ [][(pc \in CodePositions /\ run.mode \in LoopModes /\ asked' # asked)
             => asked' = asked + 1]_vars
    /\ []((pc = "finish" /\ run.mode \in LoopModes) => asked = Len(run.vendor_codes))

\* C11 witness: a remote run completes, in which the first code failed and the second
\* one was uploaded after it
C11_Witness ==
    /\ pc = "finish"
    /\ run.mode = "remote"
    /\ Len(run.vendor_codes) = 2
    /\ failed_vendor_codes = <<run.vendor_codes[1]>>
    /\ uploaded = {2}

\* C12: a run is aborted only from a setup position (uploader or downloader
\* creation, enumeration, single-file classification); at that point no product-search,
\* link or upload request was sent in the run, and the aborted run has processedCount
\* 0, an empty failedCodes and isRunning cleared.
C12_AbortOnlyInSetup ==
    [][(pc' = "aborted" /\ pc # "aborted")
          => /\ pc \in SetupPositions
             /\ asked = 0
             /\ ~upload_sent
             /\ call = NoCall
             /\ processed_files' = 0
             /\ failed_vendor_codes' = <<>>
             /\ ~is_processing']_vars

\* C12 witness: a run with two vendor codes was aborted
C12_Witness ==
    /\ pc = "aborted"
    /\ total_files = Some(2)
    /\ processed_files = 0
    /\ failed_vendor_codes = <<>>
    /\ ~is_processing

\* C13: vendor codes are processed strictly in input order: within a run the position
\* of the code a request (product search, link, upload) is sent for never goes back, so
\* every request for the code at position i precedes every request for position i+1;
\* and a request is always for the code the loop is at.
C13_RequestsInInputOrder ==
    /\ [][(pc \in CodePositions) => asked' >= asked]_vars
    /\ [][(pc \in CodePositions /\ asked' # asked) => asked' = idx]_vars
    /\ [](pc \in CodePositions => asked <= idx)

\* C13 witness: the second code's upload request is being retried, after the first
\* code was searched, resolved and uploaded
C13_Witness ==
    /\ pc = "upload_links"
    /\ idx = 2
    /\ asked = 2
    /\ call.requests = 1
    /\ uploaded = {1}

\* C14: in remote and local-folder mode enumeration has returned before the first
\* upload request of the run, and no listing request is sent after an upload request.
C14_EnumerationBeforeUpload ==
    /\ [](pc \in {"remote", "local", "enum"} => ~upload_sent)
    /\ [][upload_sent => enum'.requests <= enum.requests]_vars
    /\ [][(upload_sent' /\ ~upload_sent /\ run.mode = "remote")
             => (enum.status = "ok" /\ enum.stack = <<>> /\ files = enum.files)]_vars

\* C14 witness: the first upload request of a remote run whose enumeration took three
\* listing requests
C14_Witness ==
    /\ pc = "upload_links"
    /\ run.mode = "remote"
    /\ call.requests = 1
    /\ upload_sent
    /\ enum.requests >= 3
    /\ uploaded = {}

\* The paths of the files enumeration produced for the current code, in the order of
\* the enumeration result
EnumeratedPaths ==
    LET positions == {i \in 1..Len(files) : files[i].articul = VendorCode}
        nth(k) == CHOOSE i \in positions : Cardinality({j \in positions : j <= i}) = k
    IN [k \in 1..Cardinality(positions) |-> files[nth(k)].path]

\* C15: in remote mode the URL sequence of an upload request holds exactly one URL per
\* enumerated file of the code, in enumeration order: URL k is the link resolved for
\* the k-th enumerated file of the code.
C15_OneUrlPerFileInOrder ==
    (pc = "upload_links" /\ run.mode = "remote")
        => [k \in 1..Len(call.urls) |-> call.urls[k].path] = EnumeratedPaths

\* C15 witness: an upload request was sent with the URLs of two different files
C15_Witness ==
    /\ pc = "upload_links"
    /\ run.mode = "remote"
    /\ call.requests = 1
    /\ Len(call.urls) = 2
    /\ call.urls[1].path # call.urls[2].path

\* C16: when a request of upload_links is answered with a non-2xx status other than
\* 429, the call fails at once: that request was the only one of its attempt, no retry
\* follows it, and the processed counter is as it was when the call started.
C16_OtherStatusFailsAtOnce ==
    (InUploadLinks /\ call.last = "status")
        => /\ call.kind = "upload_failed"
           /\ call.requests = call.attempts + 1
           /\ processed_files = call.start
           /\ pc = "count"

\* C16 witness: the call failed on a status answer to its second request, the first one
\* having been answered 429
C16_Witness ==
    /\ InUploadLinks
    /\ call.last = "status"
    /\ call.kind = "upload_failed"
    /\ call.attempts = 1
    /\ call.requests = 2

\* Some URL of the call starts with none of http://, https://, file://
HasInvalidUrl(urls) ==
    \E i \in 1..Len(urls) : urls[i].scheme \notin {"http://", "https://", "file://"}

\* C17: a call of upload_links with an invalid URL in its list fails without a request
\* and leaves the processed counter unchanged.
C17_InvalidUrlRejected ==
    (InUploadLinks /\ HasInvalidUrl(call.urls))
        => /\ call.kind = "upload_failed"
           /\ call.requests = 0
           /\ call.last = "none"
           /\ processed_files = call.start

\* C17 witness: a call was rejected whose list holds a valid URL and then an invalid one
C17_Witness ==
    /\ InUploadLinks
    /\ call.kind = "upload_failed"
    /\ call.requests = 0
    /\ Len(call.urls) = 2
    /\ call.urls[1].scheme = "https://"
    /\ call.urls[2].scheme = "ftp://"

\* The worker is inside upload_local_file, or its last call of a code has returned
InUploadFile == call.kind \in {"upload_file", "uploaded", "upload_failed"} /\ ~InUploadLinks

ForegroundStep ==
    \/ SaveApiKey
    \/ RetryFailed
    \/ Start

C21_FailedOnlyGrows ==
    /\ [][(~is_processing /\ is_processing') => failed_vendor_codes' = <<>>]_vars
    /\ [][(is_processing /\ failed_vendor_codes' # failed_vendor_codes)
             => /\ Len(failed_vendor_codes') = Len(failed_vendor_codes) + 1
                /\ SubSeq(failed_vendor_codes', 1, Len(failed_vendor_codes))
                       = failed_vendor_codes]_vars

\* C21 witness: a second failure was appended during a run, after a different one
C21_Witness ==
    /\ is_processing
    /\ Len(failed_vendor_codes) = 2
    /\ failed_vendor_codes[1] # failed_vendor_codes[2]
    /\ failed_vendor_codes[1] = run.vendor_codes[1]

NextFetch(e) ==
    [root |-> e.root, path |-> Top(e.stack).path, page |-> Top(e.stack).page]

\* The path under enumeration before the step is still under enumeration after it
StillListed ==
    /\ pc' = "enum"
    /\ enum'.root = enum.root
    /\ \E i \in 1..Len(enum'.stack) : enum'.stack[i].path = Top(enum.stack).path

\* C23: a page fetch is sent at most 3 times: a listing request is only sent after
\* fewer than 3 transport failures of its fetch, and the same fetch is sent again only
\* after a transport failure, which is counted; after any other failure (non-2xx
\* status, unreadable or unparsable body) the path is not enumerated further.
C23_ListingRetryBudget ==
    /\ [](pc = "enum" => enum.attempts < ListMaxAttempts)
    /\ [][(pc = "enum" /\ pc' = "enum" /\ NextFetch(enum') = NextFetch(enum))
             => (enum'.last = "transport" /\ enum'.attempts = enum.attempts + 1)]_vars
    /\ [][(pc = "enum" /\ StillListed) => enum'.last \in {"ok", "transport"}]_vars
    /\ [][(pc = "enum" /\ pc' = "enum" /\ enum'.last # "transport")
             => enum'.attempts = 0]_vars

\* C23 witness: the third request of one fetch is about to be sent, after a page was
\* listed with success
C23_Witness ==
    /\ pc = "enum"
    /\ enum.attempts = 2
    /\ enum.last = "transport"
    /\ enum.requests >= 3
    /\ Top(enum.stack).page = 1

\* The files the calls in progress hold, from the outermost call to the innermost
RECURSIVE FramesFiles(_)
FramesFiles(stack) ==
    IF stack = <<>> THEN <<>> ELSE FramesFiles(Pop(stack)) \o Top(stack).files

\* The files matched outside the directory being listed
OtherFiles(e) == e.files \o FramesFiles(Pop(e.stack))

\* The step has ended the listing of a path with a failure
ListingFailed ==
    \/ enum'.last \in {"status", "body", "parse", "failed"}
    \/ enum'.last = "transport" /\ enum'.attempts = 0

\* C24: a failing listing of a subdirectory never aborts the run and leaves the
\* enumeration with exactly the files matched in the other directories, which it
\* returns when it ends; a failing listing of the top-level path of a root aborts
\* the run, and nothing else does during enumeration.
C24_SubdirSkippedTopFails ==
    /\ [][(pc = "enum" /\ Len(enum.stack) >= 2) => pc' # "aborted"]_vars
    /\ [][(pc = "enum" /\ Len(enum.stack) >= 2 /\ ListingFailed)
             => IF pc' = "enum"
                THEN enum'.files \o FramesFiles(enum'.stack) = OtherFiles(enum)
                ELSE files' = OtherFiles(enum)]_vars
    /\ [][(pc = "enum" /\ Len(enum.stack) = 1 /\ pc' # "aborted")
             => \/ enum'.last \in {"ok", "none"}
                \/ enum'.last = "transport" /\ enum'.attempts = enum.attempts + 1]_vars

C24_Witness ==
    /\ pc = "nm_id"
    /\ enum.last = "failed"
    /\ enum.requests = 2
    /\ Len(files) = 1

\* The step is a request of get_download_link after which the same file is still
\* being resolved
SameFile == pc = "link" /\ pc' = "link" /\ call'.file = call.file

\* C25: get_download_link asks the roots in order, a root at most 3 times for one
\* file: the same root is asked again only after a counted failure (a transport
\* error or a status that is neither 2xx nor 401); the next root is asked after a
\* 401, whatever the count, or after the third counted failure; a 2xx response
\* with a URL ends the resolution of the file, the next file starting at root 1.
C25_LinkRootsInOrder ==
    /\ [](pc = "link" => /\ call.attempts < LinkMaxAttempts
                         /\ call.key \in 1..Len(run.public_keys))
    /\ [][(SameFile /\ call'.key = call.key)
             => /\ call'.last \in {"status", "transport"}
                /\ call'.attempts = call.attempts + 1]_vars
    /\ [][(SameFile /\ call'.key # call.key)
             => /\ call'.key = call.key + 1
                /\ call'.attempts = 0
                /\ \/ call'.last = "401"
                   \/ /\ call'.last \in {"status", "transport"}
                      /\ call.attempts = LinkMaxAttempts - 1]_vars
    /\ [][(pc = "link" /\ pc' = "link" /\ call'.last = "401")
             => (call'.file = call.file /\ call'.key = call.key + 1)]_vars
    /\ [][(pc = "link" /\ pc' = "link" /\ call'.file # call.file)
             => /\ call'.last \in {"https", "ftp"}
                /\ call'.file = call.file + 1
                /\ call'.key = 1
                /\ call'.attempts = 0
                /\ Len(call'.urls) = Len(call.urls) + 1]_vars
    /\ [][(pc = "link" /\ pc' = "link" /\ call'.last \in {"https", "ftp"})
             => call'.file = call.file + 1]_vars
    /\ [][(pc = "link" /\ pc' = "upload_links")
             => /\ call.file = Len(call.files)
                /\ Len(call'.urls) = Len(call.urls) + 1]_vars

C25_Witness ==
    /\ pc = "link"
    /\ call.key = 2
    /\ call.last = "401"
    /\ call.attempts = 0
    /\ call.requests = 3

\* C26: generate_media_json gets Err from get_download_link only at the last root
\* (violated: a 2xx response whose body cannot be read or parsed returns Err from
\* the first root).
C26_ErrOnlyAfterAllRoots ==
    [][(pc = "link" /\ pc' = "count" /\ call'.kind = "link_err")
         => call.key = Len(run.public_keys)]_vars

\* The positions of the codes whose lower-cased form starts the lower-cased name
Matching(name, codes) ==
    {i \in 1..Len(codes) : starts_with(to_lowercase(name), to_lowercase(codes[i]))}

\* C27: wherever one file is classified (remote listing, local walk, single-file
\* mode), nothing is produced when no code is a prefix of the name, and a produced
\* descriptor carries a longest code among those that are a prefix (violated: the
\* single-file mode takes the first code that is a prefix).
C27_LongestPrefixEverywhere ==
    pc \in {"classified_remote", "classified_local", "classified_single"}
    => LET match == Matching(run.single_file_path, run.vendor_codes)
       IN /\ match = {} => files = <<>>
          /\ files # <<>> =>
               \E i \in match :
                 /\ run.vendor_codes[i] = files[1].articul
                 /\ \A j \in match : Len(run.vendor_codes[j]) <= Len(run.vendor_codes[i])

\* The canonical decimal digits of a natural number
RECURSIVE DigitsOf(_)
DigitsOf(n) == IF n < 10 THEN <<ToString(n)>> ELSE DigitsOf(n \div 10) \o <<ToString(n % 10)>>

\* A run of digits without its leading zeros
Canonical(ds) == IF StripZeros(ds) = <<>> THEN <<"0">> ELSE StripZeros(ds)

\* What is left of the name after the longest code that is a prefix of it
Remainder(name, codes) ==
    LET match == Matching(name, codes)
        i == CHOOSE k \in match : \A j \in match : Len(codes[j]) <= Len(codes[k])
    IN SubSeq(to_lowercase(name), Len(codes[i]) + 1, Len(name))

\* The digits of a remainder made of '_' or '-', digits, a dot and an extension;
\* <<>> for any other remainder
SuffixDigits(r) ==
    LET ends == {k \in 2..(Len(r) - 2) :
                   /\ r[1] \in {"_", "-"}
                   /\ \A i \in 2..k : r[i] \in Digits
                   /\ r[k + 1] = "."
                   /\ \A i \in (k + 2)..Len(r) : r[i] \in Letters \cup Digits \cup {"_"}}
    IN IF ends = {} THEN <<>> ELSE SubSeq(r, 2, CHOOSE k \in ends : TRUE)

\* The file of an enumeration (remote or local) is a media file and a code matches
EnumerationClassified ==
    /\ pc \in {"classified_remote", "classified_local"}
    /\ is_media_file(run.single_file_path)
    /\ Matching(run.single_file_path, run.vendor_codes) # {}

\* C28 as stated: digits after the separator give that number, a remainder that
\* starts with '.' gives 1, any other remainder leaves the result empty.
C28_RemainderDecides ==
    EnumerationClassified
    => LET r == Remainder(run.single_file_path, run.vendor_codes)
       IN IF SuffixDigits(r) # <<>>
          THEN Len(files) = 1 /\ DigitsOf(files[1].photo_number) = Canonical(SuffixDigits(r))
          ELSE IF r # <<>> /\ r[1] = "."
          THEN Len(files) = 1 /\ files[1].photo_number = 1
          ELSE files = <<>>

\* C28, amended: digits after the separator give that number when it fits 32 bits
\* unsigned and 1 when it does not; a remainder that starts with '.' gives 1; any
\* other remainder leaves the result empty.
C28_RemainderDecidesU32 ==
    EnumerationClassified
    => LET r == Remainder(run.single_file_path, run.vendor_codes)
       IN IF SuffixDigits(r) # <<>>
          THEN /\ Len(files) = 1
               /\ IF FitsU32(SuffixDigits(r))
                  THEN DigitsOf(files[1].photo_number) = Canonical(SuffixDigits(r))
                  ELSE files[1].photo_number = 1
          ELSE IF r # <<>> /\ r[1] = "."
          THEN Len(files) = 1 /\ files[1].photo_number = 1
          ELSE files = <<>>

C28_Witness ==
    /\ pc = "classified_remote"
    /\ run.single_file_path = Name_aBig
    /\ Len(files) = 1
    /\ files[1].photo_number = 1

\* C29: every descriptor produced by a classification has a photo number of at
\* least 1 (violated: the suffix _0 gives 0).
C29_PhotoNumberPositive ==
    \A i \in 1..Len(files) : files[i].photo_number >= 1

\* C30: get_nm_id_by_vendor_code returns the nmID of the first card when the
\* status is 2xx and the card list is not empty, whatever cards follow; it returns
\* an error on any other status, on a body that cannot be read or parsed, when no
\* response arrives, and on an empty card list.
C30_FirstCardOrError ==
    pc = "nm_returned"
    => IF call.resp.kind = "2xx" /\ Len(call.resp.cards) >= 1
       THEN call.result = <<Head(call.resp.cards)>>
       ELSE call.result = <<>>

C30_Witness ==
    /\ pc = "nm_returned"
    /\ call.resp.kind = "2xx"
    /\ Len(call.resp.cards) = 3
    /\ call.resp.cards[1] = 8
    /\ call.resp.cards[3] = 7
    /\ call.result = <<8>>

\* C31: a subdirectory that is not the first of its parent is listed only when,
\* after the scan of the sibling before it, some target code was still not found:
\* once a subdirectory's scan ends with every target code found, no later sibling
\* receives a request.
C31_NoSiblingAfterAllFound ==
    (/\ pc = "enum"
     /\ Len(enum.stack) >= 2
     /\ Top(enum.stack).page = 0
     /\ Top(Pop(enum.stack)).k >= 2)
    => ~AllFound(enum.found)

C31_Witness ==
    /\ pc = "nm_id"
    /\ run.public_keys = <<Link(TreeTwoDirs)>>
    /\ Len(run.vendor_codes) = 2
    /\ enum.requests = 3
    /\ enum.last = "none"
    /\ Len(files) = 2

\* How many file entries of the folder and its subfolders carry the name
RECURSIVE CountFiles(_, _)
CountFiles(entries, name) ==
    IF entries = <<>> THEN 0
    ELSE (IF Head(entries).item_type = "file" /\ Head(entries).name = name THEN 1 ELSE 0)
         + CountFiles(Head(entries).entries, name)
         + CountFiles(Tail(entries), name)

\* The name is that of a media file that one of the codes classifies
Classifiable(name) ==
    /\ is_media_file(name)
    /\ Matching(name, run.vendor_codes) # {}
    /\ LET r == Remainder(name, run.vendor_codes)
       IN SuffixDigits(r) # <<>> \/ (r # <<>> /\ r[1] = ".")

\* C32: when the local walk returns, its result holds one descriptor for every
\* classifiable media file of the folder and of all its subfolders, also of the
\* subfolders met after every target code has been matched.
C32_LocalWalkComplete ==
    pc = "walked"
    => \A name \in {Name_a, Name_ab2, Name_x} :
         Cardinality({i \in 1..Len(files) : files[i].name = name})
           = IF Classifiable(name) THEN CountFiles(call.tree, name) ELSE 0

C32_Witness ==
    /\ pc = "walked"
    /\ run.vendor_codes = <<CodeA, CodeAB>>
    /\ Len(call.tree) = 2
    /\ call.tree[1].name = <<"e">>
    /\ call.tree[2].name = <<"d">>
    /\ Len(files) = 3

\* C33: when remote enumeration has returned, every code of the found set has a
\* descriptor in the returned list (violated: a code enters the found set before
\* the rest of the name is checked against the pattern, and stays in it when the
\* subdirectory that held its files fails on a later page).
C33_FoundCodesHaveFiles ==
    (enum.status = "ok" /\ pc \in {"nm_id", "finish"})
    => \A c \in enum.found : \E i \in 1..Len(files) : files[i].articul = c

\* C34: in every state in which the status panel computes total - processed (a run
\* is in progress and has a start time), processed_files is at most total_files,
\* read as 0 when unset (violated: a code's upload is counted by the uploader and
\* again by the loop over the codes).
C34_ProcessedWithinTotal ==
    (is_processing /\ start_time)
    => processed_files <= (IF total_files = None THEN 0 ELSE total_files[1])

\* C35: the worker never holds one of the mutexes of logs and failed_vendor_codes
\* and waits for the other while the UI thread holds that one and waits for the
\* first (violated: a failure branch of the worker takes logs, then
\* failed_vendor_codes; the retry button takes failed_vendor_codes, then logs).
C35_NoLockCycle ==
    /\ ~(/\ pc = "w_has_logs" /\ call.logs = "worker"
         /\ call.ui = "retry_logs" /\ call.failed = "ui")
    /\ ~(/\ pc \in {"w_end_logs", "w_end_logs2"} /\ call.failed = "worker"
         /\ call.ui \in {"retry", "start_clear"} /\ call.logs = "ui")

\* s can be got from t by leaving entries out
RECURSIVE IsSubSeq(_, _)
IsSubSeq(s, t) ==
    IF s = <<>> THEN TRUE
    ELSE IF t = <<>> THEN FALSE
    ELSE IF Head(s) = Head(t) THEN IsSubSeq(Tail(s), Tail(t))
    ELSE IsSubSeq(s, Tail(t))

\* C36: when the loop over the codes has ended, the failed list is the input list
\* with some entries left out: at most one entry per occurrence of a code, in input
\* order (violated: local-folder mode pushes the code once per failing file).
C36_OneEntryPerFailedCode ==
    pc = "finish" => IsSubSeq(failed_vendor_codes, run.vendor_codes)

\* C37: in remote mode, the step in which the direct URL of one file of a code
\* cannot be got appends the code to the failed list, leaves the processed counter
\* alone and takes the loop to its counting block, from where the next code
\* follows; upload_links, the only place that sends a media-save request, is
\* entered only with one URL for every file of the code.
C37_BatchAllOrNothing ==
    /\ [][(pc = "link" /\ pc' # "link" /\ Len(call.urls) + 1 < Len(call.files))
             => /\ call'.kind = "link_err"
                /\ pc' = "count"
                /\ failed_vendor_codes' = Append(failed_vendor_codes, run.vendor_codes[idx])
                /\ processed_files' = processed_files
                /\ uploaded' = uploaded
                /\ upload_sent' = upload_sent]_vars
    /\ [][(pc = "link" /\ call'.kind = "link_err")
             => /\ pc' = "count"
                /\ failed_vendor_codes' = Append(failed_vendor_codes, run.vendor_codes[idx])
                /\ processed_files' = processed_files
                /\ uploaded' = uploaded
                /\ upload_sent' = upload_sent]_vars
    /\ [][(pc = "count" /\ run.mode = "remote") => (pc' # "upload_links" /\ idx' = idx + 1)]_vars
    /\ [][(pc # "upload_links" /\ pc' = "upload_links")
             => (pc = "link" /\ Len(call'.urls) = Len(call.files))]_vars

C37_Witness ==
    /\ pc = "count"
    /\ call.kind = "link_err"
    /\ call.resolved = 1
    /\ ~upload_sent
    /\ processed_files = 0
    /\ idx = 1
    /\ failed_vendor_codes = <<run.vendor_codes[1]>>

\* The items of all the pages of a directory, in page order
RECURSIVE AllItems(_)
AllItems(dir) == IF dir = <<>> THEN <<>> ELSE Head(dir) \o AllItems(Tail(dir))

\* The paths of the classifiable media files of a directory: those of the directory
\* itself in page order, then those of each of its subdirectories in listing order
RECURSIVE ExpectedPaths(_, _)
RECURSIVE ExpectedBelow(_, _)
ExpectedPaths(dir, path) ==
    LET items == AllItems(dir)
        own == SelectSeq(items, LAMBDA it : it.item_type = "file" /\ Classifiable(it.name))
    IN [i \in 1..Len(own) |-> Concat(path, own[i].name)] \o ExpectedBelow(items, path)

ExpectedBelow(items, path) ==
    IF items = <<>> THEN <<>>
    ELSE (IF Head(items).item_type = "dir"
          THEN ExpectedPaths(Head(items).dir, Concat(path, Head(items).name))
          ELSE <<>>)
         \o ExpectedBelow(Tail(items), path)

\* C38: when every listing succeeds and the target codes are never all found,
\* find_files returns one descriptor per classifiable media file of the share: the
\* files of a path in page order, then those of its subdirectories in listing order.
C38_CompleteInListingOrder ==
    (pc = "enumerated" /\ ~AllFound(enum.found))
    => /\ enum.status = "ok"
       /\ [i \in 1..Len(files) |-> files[i].path]
            = ExpectedPaths(run.public_keys[1].tree, <<"/">>)

C38_Witness ==
    /\ pc = "enumerated"
    /\ ~AllFound(enum.found)
    /\ Len(run.vendor_codes) = 3
    /\ Len(files) = 5
    /\ files[1].name = Name_a1
    /\ files[2].name = Name_a
    /\ files[4].path = <<"/", "d", "/">> \o Name_ab2

\* The boxes hold something the start validation must reject: a link that is not of
\* the share service, a single file that is no file or no media file, a local path
\* that is no directory, or an empty API key
BadBoxes ==
    /\ call.kind = "boxes"
    /\ \/ ~call.in.use_local_path
          /\ \E i \in 1..Len(call.in.urls) : call.in.urls[i].text # "disk.yandex.ru/d/"
       \/ call.in.use_local_path /\ call.in.single_file_path # <<>>
          /\ (~call.in.single_is_file \/ ~is_media_file(call.in.single_file_path))
       \/ call.in.use_local_path /\ call.in.single_file_path = <<>>
          /\ ~call.in.local_is_dir
       \/ call.api_key = <<>>

\* C39: a click on the start button that validation rejects leaves is_processing,
\* total_files, processed_files, start_time and failed_vendor_codes as they were,
\* spawns no thread and appends exactly one log line.
C39_RejectedStartKeepsState ==
    [][BadBoxes
         => /\ is_processing' = is_processing
            /\ total_files' = total_files
            /\ processed_files' = processed_files
            /\ start_time' = start_time
            /\ failed_vendor_codes' = failed_vendor_codes
            /\ threads' = threads
            /\ pc' = pc
            /\ logs' = logs + 1]_vars

C39_Witness ==
    /\ BadBoxes
    /\ call.in.use_local_path
    /\ ~call.in.local_is_dir
    /\ call.api_key # <<>>
    /\ logs = 1
    /\ threads = 0
    /\ ~is_processing
    /\ total_files = Some(1)
    /\ processed_files = 1
    /\ failed_vendor_codes = <<CodeA>>
    /\ file_names = <<CodeAB>>














====
